---- MODULE Spec2Model ----
(***************************************************************************)
(* Model of jobrunner.JobRunner (src/jobrunner/jobrunner.py).              *)
(*                                                                         *)
(* Python strings are modelled as sequences of tokens: a command line is   *)
(* the sequence of the pieces the code concatenates with +, in the order   *)
(* it concatenates them; a job identifier and the content of the array     *)
(* file are sequences of one-character strings.  None is "" for the        *)
(* string parameters (the code only tests their truth value) and NoneInt   *)
(* for the integer parameters.                                             *)
(*                                                                         *)
(* A list argument is a reference: Python passes list objects, and the     *)
(* default value [] of a parameter is one object shared by all calls.      *)
(* heap maps every list object that outlives a call to its contents.       *)
(***************************************************************************)
EXTENDS Integers, Sequences, FiniteSets, TLC

VARIABLES
    constructed,              \* "ok" | "ValueError": outcome of JobRunner.__init__
    hpc_type_given,           \* the hpc_type argument of JobRunner.__init__
    hpc_type,                 \* self.hpc_type
    strip_job_array_suffix,   \* self.strip_job_array_suffix
    qsub_extra_params,        \* self.qsub_extra_params ("" is None)
    exception_handler,        \* TRUE iff a handler was given to __init__
    verbose,                  \* self.verbose
    heap,                     \* contents of the long-lived list objects
    call,                     \* the arguments of the last call
    qsub_command_line,        \* the submission command built by the last call
    command,                  \* the command line handed to subprocess by the last call
    num_tasks,                \* local variable num_tasks of the last run_array
    spawned,                  \* child processes spawned by the last call
    handler_calls,            \* invocations of the exception handler by the last call
    outcome,                  \* [raised, job_id] of the last call
    batch                     \* the child processes of a local call followed step by step

vars == <<constructed, hpc_type_given, hpc_type, strip_job_array_suffix,
          qsub_extra_params, exception_handler, verbose, heap, call,
          qsub_command_line, command, num_tasks, spawned, handler_calls, outcome,
          batch>>

config == <<constructed, hpc_type_given, hpc_type, strip_job_array_suffix,
            qsub_extra_params, exception_handler, verbose>>

----------------------------------------------------------------------------
\* Bounds of the model.

\* Longest dependency list a list object may grow to.
MaxDepListLen == 4

\* Longest text the submission tool prints (characters).
MaxIdLen == 3

\* Longest array file (characters).
MaxFileLen == 4

\* Largest explicit task count / concurrency cap passed by the caller.
MaxTasks == 2

----------------------------------------------------------------------------
\* Values.

\* None for the integer parameters num_tasks and max_processes.
NoneInt == -1

\* Python truth value of an int-or-None parameter: None and 0 are false.
Truthy(n) == n /= NoneInt /\ n /= 0

\* str(n) and "%i" % n
Str(n) == ToString(n)

\* sep.join(list), as the sequence of its pieces.
RECURSIVE Join(_, _)
Join(sep, list) ==
    IF Len(list) = 0 THEN <<>>
    ELSE IF Len(list) = 1 THEN <<list[1]>>
    ELSE <<list[1], sep>> \o Join(sep, Tail(list))

\* The list objects that outlive a call: the default values of the wait_for
\* and wait_for_array parameters of the three methods, and two lists the
\* caller owns and may pass again.
DefaultObjects ==
    {"_make_qsub_command.wait_for", "_make_qsub_command.wait_for_array",
     "run.wait_for", "run.wait_for_array",
     "run_array.wait_for", "run_array.wait_for_array"}

CallerObjects == {"caller.jobs", "caller.arrays"}

Objects == DefaultObjects \cup CallerObjects

\* A dependency argument: the parameter left out (kind "default"), a single
\* string (kind "str", val the one-element list of it), a list written in the
\* call (kind "literal", val its items) or a list object (kind "obj", val the
\* one-element list of its name).
DefaultArg == [kind |-> "default", val |-> <<>>]
StrArg(s) == [kind |-> "str", val |-> <<s>>]
LiteralArg(items) == [kind |-> "literal", val |-> items]
ObjArg(o) == [kind |-> "obj", val |-> <<o>>]

\* Python binds a parameter left out to the default object of the function.
Bind(arg, default_obj) == IF arg.kind = "default" THEN ObjArg(default_obj) ELSE arg

\* The list a bound argument denotes in heap h; isinstance(x, str) wraps a
\* string into a new one-element list.
AsList(arg, h) == IF arg.kind = "obj" THEN h[arg.val[1]] ELSE arg.val

\* list.extend on the list a bound argument denotes: only a list object keeps
\* the change after the call.
Extend(arg, more, h) ==
    IF arg.kind = "obj" THEN [h EXCEPT ![arg.val[1]] = @ \o more] ELSE h

----------------------------------------------------------------------------
\* _make_qsub_command

\* os.getcwd()
Cwd == "/cwd"

\* A variant of CombinedWaitFor that puts the array dependencies first.
CombinedWaitFor_ArraysFirst(wait_for, wait_for_array, slot_dependency, h) ==
    IF hpc_type \in {"grid", "slurm"} /\ ~slot_dependency
    THEN AsList(wait_for_array, h) \o AsList(wait_for, h)
    ELSE AsList(wait_for, h)

\* Lines 178-179 and 209-210: wait_for.extend(wait_for_array) when the slot
\* dependency is off, on grid and slurm only; torque never combines the lists.
CombinedWaitFor(wait_for, wait_for_array, slot_dependency, h) ==
    IF hpc_type \in {"grid", "slurm"} /\ ~slot_dependency
    THEN AsList(wait_for, h) \o AsList(wait_for_array, h)
    ELSE AsList(wait_for, h)

\* The heap after the builder ran: the extend above changes the list object
\* wait_for denotes, before any later statement of the builder can raise.
HeapAfterBuild(wait_for, wait_for_array, slot_dependency, h) ==
    IF hpc_type \in {"grid", "slurm"} /\ ~slot_dependency
    THEN Extend(wait_for, AsList(wait_for_array, h), h)
    ELSE h

\* Lines 180-183: the grid dependency options, wf being wait_for after the
\* extend and wfa being wait_for_array.
GridDependencies(wf, wfa, slot_dependency) ==
    (IF Len(wf) > 0 THEN <<" -hold_jid ">> \o Join(",", wf) ELSE <<>>)
    \o (IF slot_dependency /\ Len(wfa) > 0
        THEN <<" -hold_jid_ad ">> \o Join(",", wfa) ELSE <<>>)

\* Lines 211-218: the slurm dependency option; wait_for_array is emptied when
\* the lists were combined.
SlurmDependencies(wf, wfa, slot_dependency) ==
    LET wfa2 == IF ~slot_dependency THEN <<>> ELSE wfa
        dependencies ==
            (IF Len(wf) > 0 THEN <<<<"afterok:">> \o Join(":", wf)>> ELSE <<>>)
            \o (IF Len(wfa2) > 0 /\ slot_dependency
                THEN <<<<"aftercorr:">> \o Join(":", wfa2)>> ELSE <<>>)
    IN  IF Len(dependencies) = 0 THEN <<>>
        ELSE IF Len(dependencies) = 1 THEN <<" --dependency=">> \o dependencies[1]
        ELSE <<" --dependency=">> \o dependencies[1] \o <<",">> \o dependencies[2]

\* A variant of TorqueDependencies that combines the lists like grid and slurm.
TorqueDependencies_Merged(wf, wfa, slot_dependency) ==
    IF Len(wf \o wfa) = 0 THEN <<>>
    ELSE <<" -W depend=", "afterok:">> \o Join(":", wf \o wfa)

\* Lines 239-245: the torque dependency option.
TorqueDependencies(wf, wfa, slot_dependency) ==
    LET dependencies ==
            (IF Len(wf) > 0 THEN <<<<"afterok:">> \o Join(":", wf)>> ELSE <<>>)
            \o (IF Len(wfa) > 0
                THEN <<<<"afterokarray:">> \o Join(":", wfa)>> ELSE <<>>)
    IN  IF Len(dependencies) = 0 THEN <<>>
        ELSE IF Len(dependencies) = 1 THEN <<" -W depend=">> \o dependencies[1]
        ELSE <<" -W depend=">> \o dependencies[1] \o <<",">> \o dependencies[2]

\* A variant of NeedsParallelEnvironment without the test of the backend.
NeedsParallelEnvironment_AnyBackend(threads, parallel_environment) ==
    threads > 1 /\ parallel_environment = ""

\* Lines 187-190, 220-221, 247-248: the thread request of each backend.
\* NeedsParallelEnvironment is the condition of the ValueError of line 189.
NeedsParallelEnvironment(threads, parallel_environment) ==
    hpc_type = "grid" /\ threads > 1 /\ parallel_environment = ""

ThreadOption(threads, parallel_environment) ==
    IF threads > 1
    THEN CASE hpc_type = "grid" -> <<" -pe ", parallel_environment, " ", Str(threads)>>
           [] hpc_type = "slurm" -> <<" --cpus-per-task=", Str(threads)>>
           [] OTHER -> <<" -l nodes=1:ppn=", Str(threads)>>
    ELSE <<>>

\* Lines 192-193, 223-224, 250-251.
WallClockOption(wall_clock_limit) ==
    IF wall_clock_limit /= ""
    THEN CASE hpc_type = "grid" -> <<" -l h_rt=", wall_clock_limit>>
           [] hpc_type = "slurm" -> <<" --time ", wall_clock_limit>>
           [] OTHER -> <<" -l walltime=", wall_clock_limit>>
    ELSE <<>>

\* Lines 195-196, 226-227, 253-254.
ExtraParams == IF qsub_extra_params /= "" THEN <<" ", qsub_extra_params>> ELSE <<>>

\* A variant of GridCommand with the concurrency cap after the thread request.
GridCommand_CapAfterThreads(p, wf, wfa) ==
    LET array_option == IF Truthy(p.num_tasks) THEN <<" -t 1-", Str(p.num_tasks)>> ELSE <<>>
    IN  <<"qsub -terse">> \o array_option
        \o <<" -V -j y -cwd -N ", p.job_name, " -o ">> \o p.log_file
        \o GridDependencies(wf, wfa, p.slot_dependency)
        \o ThreadOption(p.threads, p.parallel_environment)
        \o (IF Truthy(p.max_processes) THEN <<" -tc ", Str(p.max_processes)>> ELSE <<>>)
        \o WallClockOption(p.wall_clock_limit)
        \o ExtraParams

\* Lines 170-197.
GridCommand(p, wf, wfa) ==
    LET array_option == IF Truthy(p.num_tasks) THEN <<" -t 1-", Str(p.num_tasks)>> ELSE <<>>
    IN  <<"qsub -terse">> \o array_option
        \o <<" -V -j y -cwd -N ", p.job_name, " -o ">> \o p.log_file
        \o GridDependencies(wf, wfa, p.slot_dependency)
        \o (IF Truthy(p.max_processes) THEN <<" -tc ", Str(p.max_processes)>> ELSE <<>>)
        \o ThreadOption(p.threads, p.parallel_environment)
        \o WallClockOption(p.wall_clock_limit)
        \o ExtraParams

\* Lines 199-228.
SlurmCommand(p, wf, wfa) ==
    LET exclusive_option == IF p.exclusive THEN <<" --exclusive">> ELSE <<>>
        max_processes_option ==
            IF Truthy(p.max_processes) THEN <<"%", Str(p.max_processes)>> ELSE <<>>
        array_option ==
            IF Truthy(p.num_tasks)
            THEN <<" --array=1-", Str(p.num_tasks)>> \o max_processes_option ELSE <<>>
    IN  <<"sbatch --parsable">> \o exclusive_option \o array_option
        \o <<" --export=ALL --job-name=", p.job_name, " -o ">> \o p.log_file
        \o SlurmDependencies(wf, wfa, p.slot_dependency)
        \o ThreadOption(p.threads, p.parallel_environment)
        \o WallClockOption(p.wall_clock_limit)
        \o ExtraParams

\* Lines 230-255.
TorqueCommand(p, wf, wfa) ==
    LET max_processes_option ==
            IF Truthy(p.max_processes) THEN <<"%", Str(p.max_processes)>> ELSE <<>>
        array_option ==
            IF Truthy(p.num_tasks)
            THEN <<" -t 1-", Str(p.num_tasks)>> \o max_processes_option ELSE <<>>
    IN  <<"qsub">> \o array_option
        \o <<" -V -j oe -d ", Cwd, " -N ", p.job_name, " -o ">> \o p.log_file
        \o TorqueDependencies(wf, wfa, p.slot_dependency)
        \o ThreadOption(p.threads, p.parallel_environment)
        \o WallClockOption(p.wall_clock_limit)
        \o ExtraParams

\* _make_qsub_command in heap h, p holding the parameters other than the two
\* dependency arguments, which come bound: [raised, cmd, heap].  raised is ""
\* when the command is returned.  On grid the ValueError of line 189 is raised
\* after the extend of line 179 has run.
MakeQsubCommand(p, wait_for, wait_for_array, h) ==
    LET wf == CombinedWaitFor(wait_for, wait_for_array, p.slot_dependency, h)
        wfa == AsList(wait_for_array, h)
        h2 == HeapAfterBuild(wait_for, wait_for_array, p.slot_dependency, h)
    IN  IF hpc_type \notin {"grid", "slurm", "torque"}
        THEN [raised |-> "ValueError", cmd |-> <<>>, heap |-> h]
        ELSE IF NeedsParallelEnvironment(p.threads, p.parallel_environment)
        THEN [raised |-> "ValueError", cmd |-> <<>>, heap |-> h2]
        ELSE [raised |-> "",
              cmd |-> CASE hpc_type = "grid" -> GridCommand(p, wf, wfa)
                        [] hpc_type = "slurm" -> SlurmCommand(p, wf, wfa)
                        [] OTHER -> TorqueCommand(p, wf, wfa),
              heap |-> h2]

----------------------------------------------------------------------------
\* Helpers of run and run_array

\* str.strip(): leading and trailing whitespace removed.
IsSpace(c) == c \in {" ", "\n"}

RECURSIVE LStrip(_)
LStrip(s) == IF Len(s) > 0 /\ IsSpace(s[1]) THEN LStrip(Tail(s)) ELSE s

RECURSIVE RStrip(_)
RStrip(s) ==
    IF Len(s) > 0 /\ IsSpace(s[Len(s)]) THEN RStrip(SubSeq(s, 1, Len(s) - 1)) ELSE s

Strip(s) == RStrip(LStrip(s))

\* str.find(c): the 0-based index of the first c, -1 when there is none.
Find(s, c) ==
    IF \E i \in 1..Len(s) : s[i] = c
    THEN (CHOOSE i \in 1..Len(s) : s[i] = c /\ \A j \in 1..(i - 1) : s[j] /= c) - 1
    ELSE -1

\* A variant of StripArraySuffix that cuts at a dot in the first place too.
StripArraySuffix_FromZero(job_id) ==
    IF strip_job_array_suffix
    THEN LET dot_idx == Find(job_id, ".")
         IN  IF dot_idx >= 0 THEN SubSeq(job_id, 1, dot_idx) ELSE job_id
    ELSE job_id

\* Lines 501-504 of run_array: the job id cut at its first dot.
StripArraySuffix(job_id) ==
    IF strip_job_array_suffix
    THEN LET dot_idx == Find(job_id, ".")
         IN  IF dot_idx > 0 THEN SubSeq(job_id, 1, dot_idx) ELSE job_id
    ELSE job_id

\* Lines 356-362: the job id run returns from the text the tool printed.
RunJobId(stdout) == Strip(stdout)

\* Lines 497-507: the job id run_array returns from the text the tool printed.
RunArrayJobId(stdout) == StripArraySuffix(Strip(stdout))

\* A variant of CountLines that skips the empty lines.
CountLines_NonEmpty(content) ==
    Cardinality({i \in 1..Len(content) :
        content[i] /= "\n" /\ (i = Len(content) \/ content[i + 1] = "\n")})

\* Line 440, sum(1 for line in f): the lines of a text file, a last line
\* without a newline included.
CountLines(content) ==
    Cardinality({i \in 1..Len(content) : content[i] = "\n"})
    + (IF Len(content) > 0 /\ content[Len(content)] /= "\n" THEN 1 ELSE 0)

\* A variant of MissingArrayInput that forgets the test of line 436.
MissingArrayInput_ExistenceOnly(n_tasks, file) == ~Truthy(n_tasks) /\ ~file.exists

\* Lines 433-440: the task count run_array works with, and what it raises.
\* file is [exists, content]; os.path.getsize is the length of the content.
MissingArrayInput(n_tasks, file) ==
    ~Truthy(n_tasks) /\ (~file.exists \/ Len(file.content) = 0)

DeriveNumTasks(n_tasks, file) ==
    IF ~Truthy(n_tasks) THEN CountLines(file.content) ELSE n_tasks

\* A variant of ArrayLogFile that gives torque an index token of its own.
ArrayLogFile_TorqueToken(log_file) ==
    CASE hpc_type = "grid" -> log_file \o <<"-\\$TASK_ID">>
      [] hpc_type = "slurm" -> log_file \o <<"-%a">>
      [] hpc_type = "torque" -> log_file \o <<"-$PBS_ARRAYID">>
      [] OTHER -> log_file

\* Lines 442-445: the log file name run_array passes on.
ArrayLogFile(log_file) ==
    CASE hpc_type = "grid" -> log_file \o <<"-\\$TASK_ID">>
      [] hpc_type = "slurm" -> log_file \o <<"-%a">>
      [] OTHER -> log_file

\* A variant of LocalOutcome whose except clause raises again after the
\* handler ran.
LocalOutcome_HandlerThenRaise(exit_status) ==
    IF exit_status = 0
    THEN [raised |-> "", returncode |-> 0, job_id |-> <<"0">>, handler_calls |-> 0]
    ELSE [raised |-> "CalledProcessError", returncode |-> exit_status, job_id |-> <<>>,
          handler_calls |-> IF exception_handler THEN 1 ELSE 0]

\* Lines 334-342 and 468-476: check_call of the local command.  A non-zero
\* exit status raises CalledProcessError, which goes to the exception handler
\* when there is one.
LocalOutcome(exit_status) ==
    IF exit_status = 0
    THEN [raised |-> "", returncode |-> 0, job_id |-> <<"0">>, handler_calls |-> 0]
    ELSE IF exception_handler
    THEN [raised |-> "", returncode |-> 0, job_id |-> <<"0">>, handler_calls |-> 1]
    ELSE [raised |-> "CalledProcessError", returncode |-> exit_status,
          job_id |-> <<>>, handler_calls |-> 0]

\* A variant of RemoteOutcome with the except clause of the local branch.
RemoteOutcome_RoutedToHandler(exit_status, job_id) ==
    IF exit_status = 0
    THEN [raised |-> "", returncode |-> 0, job_id |-> job_id, handler_calls |-> 0]
    ELSE IF exception_handler
    THEN [raised |-> "", returncode |-> 0, job_id |-> <<"0">>, handler_calls |-> 1]
    ELSE [raised |-> "CalledProcessError", returncode |-> exit_status,
          job_id |-> <<>>, handler_calls |-> 0]

\* Lines 356 and 497: check_output of the submission pipeline; job_id is the
\* identifier the method makes of the text printed.
RemoteOutcome(exit_status, job_id) ==
    IF exit_status = 0
    THEN [raised |-> "", returncode |-> 0, job_id |-> job_id, handler_calls |-> 0]
    ELSE [raised |-> "CalledProcessError", returncode |-> exit_status,
          job_id |-> <<>>, handler_calls |-> 0]

\* An exception raised before any child process is started.
Raised(exception) ==
    [raised |-> exception, returncode |-> 0, job_id |-> <<>>, handler_calls |-> 0]

\* Lines 449-451: {1}..{9} become $1..$9.
Placeholder(piece) ==
    CASE piece = "{1}" -> "$1" [] piece = "{2}" -> "$2" [] piece = "{3}" -> "$3"
      [] piece = "{4}" -> "$4" [] piece = "{5}" -> "$5" [] piece = "{6}" -> "$6"
      [] piece = "{7}" -> "$7" [] piece = "{8}" -> "$8" [] piece = "{9}" -> "$9"
      [] OTHER -> piece

ReplacePlaceholders(command_line) ==
    [i \in 1..Len(command_line) |-> Placeholder(command_line[i])]

\* psutil.cpu_count()
CpuCount == 2

----------------------------------------------------------------------------
\* __init__

\* str.lower() on the names the model constructs runners with.
Lower(name) ==
    CASE name = "Grid" -> "grid"
      [] name = "SLURM" -> "slurm"
      [] name = "Torque" -> "torque"
      [] name = "LOCAL" -> "local"
      [] OTHER -> name

\* A variant of ValidHpcType that compares the name as it was given.
ValidHpcType_CaseSensitive(name) == name \in {"grid", "slurm", "torque", "local"}

\* Lines 51-53.
ValidHpcType(name) == Lower(name) \in {"grid", "slurm", "torque", "local"}

HpcTypeNames == {"grid", "Grid", "slurm", "torque", "local", "foobar"}

ExtraParamValues == {"", "-q service.q"}

InitialHeap ==
    [o \in Objects |->
        CASE o = "caller.jobs" -> <<"666", "777">>
          [] o = "caller.arrays" -> <<"888", "999">>
          [] OTHER -> <<>>]

\* The arguments of a call and what its environment answers: file is the
\* array file as the call finds it, exit_status the exit status of the child
\* process (the local command or the submission pipeline) and stdout the text
\* the submission tool prints.  The values here are the defaults of the
\* parameters.
BaseArgs(op) ==
    [op |-> op,
     command_line |-> <<"echo Hello ", "{1}">>,
     job_name |-> "JobName",
     log_file |-> <<"log">>,
     array_file |-> "array_file",
     file |-> [exists |-> TRUE, content |-> <<"a", "\n">>],
     num_tasks |-> NoneInt,
     max_processes |-> NoneInt,
     wait_for |-> DefaultArg,
     wait_for_array |-> DefaultArg,
     slot_dependency |-> FALSE,
     threads |-> 1,
     parallel_environment |-> "",
     array_subshell |-> TRUE,
     exclusive |-> FALSE,
     wall_clock_limit |-> "",
     quiet |-> FALSE,
     exit_status |-> 0,
     stdout |-> <<"7", "\n">>]

NoOutcome == Raised("")

\* No local call is being followed.  A batch is the life of the child
\* processes of one local call: limit is the number after xargs -P, tasks the
\* commands to run ([number, line, fields]: $0, the line of the array file
\* and $1..$9), started how many of them were started, running the ones
\* alive, written how many lines each has written, codes the exit status of
\* the command of each, exits the exit status of its shell (NoneInt while it
\* has none), status the exit status check_call gets, stdout and stderr what
\* reached the streams of the caller and logs the content of each log file.
NoBatch ==
    [phase |-> "none", xargs |-> FALSE, limit |-> 0, tasks |-> <<>>, started |-> 0,
     running |-> {}, written |-> <<>>, codes |-> <<>>, exits |-> <<>>,
     aborted |-> FALSE, status |-> 0, stdout |-> <<>>, stderr |-> <<>>, logs |-> <<>>]

\* The state after JobRunner(name, strip, extra, handler, talk): a name that
\* is not valid raises ValueError and leaves no runner to call.
InitRunner(name, strip, extra, handler, talk) ==
    /\ hpc_type_given = name
    /\ constructed = IF ValidHpcType(name) THEN "ok" ELSE "ValueError"
    /\ hpc_type = IF ValidHpcType(name) THEN Lower(name) ELSE ""
    /\ strip_job_array_suffix = (ValidHpcType(name) /\ strip)
    /\ qsub_extra_params = IF ValidHpcType(name) THEN extra ELSE ""
    /\ exception_handler = (ValidHpcType(name) /\ handler)
    /\ verbose = (ValidHpcType(name) /\ talk)
    /\ batch = NoBatch
    /\ heap = InitialHeap
    /\ call = BaseArgs("none")
    /\ qsub_command_line = <<>>
    /\ command = <<>>
    /\ num_tasks = NoneInt
    /\ spawned = 0
    /\ handler_calls = 0
    /\ outcome = NoOutcome

\* The runners constructed with the given values of the optional parameters.
InitWith(strips, extras, handlers, talks) ==
    \E name \in HpcTypeNames, strip \in strips, extra \in extras,
       handler \in handlers, talk \in talks :
        InitRunner(name, strip, extra, handler, talk)

\* JobRunner(name): the optional parameters at their defaults (line 28).
Init == InitWith({TRUE}, {""}, {FALSE}, {FALSE})

----------------------------------------------------------------------------
\* run, run_array and _make_qsub_command as functions of their arguments a
\* and the heap h: what the call leaves behind.

Result(h, qsub, cmd, n, children, out) ==
    [heap |-> h, qsub_command_line |-> qsub, command |-> cmd, num_tasks |-> n,
     spawned |-> children, out |-> out]

\* Lines 167-255, called directly.
MakeQsubCommandResult(a, h) ==
    LET b == MakeQsubCommand(a, Bind(a.wait_for, "_make_qsub_command.wait_for"),
                 Bind(a.wait_for_array, "_make_qsub_command.wait_for_array"), h)
    IN  Result(b.heap, b.cmd, <<>>, a.num_tasks, 0, Raised(b.raised))

\* Line 325.
RunRedirection(log_file, quiet) ==
    IF quiet THEN <<" > ">> \o log_file \o <<" 2>&1 ">>
    ELSE <<" 2>&1 | tee ">> \o log_file

\* Lines 324-362.
RunResult(a, h) ==
    IF hpc_type = "local"
    THEN Result(h, <<>>,
             <<"set -o pipefail; ">> \o a.command_line
                 \o RunRedirection(a.log_file, a.quiet),
             NoneInt, 1, LocalOutcome(a.exit_status))
    ELSE LET p == [a EXCEPT !.slot_dependency = FALSE, !.num_tasks = NoneInt,
                               !.max_processes = NoneInt]
             b == MakeQsubCommand(p, Bind(a.wait_for, "run.wait_for"),
                      Bind(a.wait_for_array, "run.wait_for_array"), h)
             command_line ==
                 IF hpc_type = "slurm" THEN <<"'#!/bin/sh\\n'">> \o a.command_line
                 ELSE a.command_line
         IN  IF b.raised /= ""
             THEN Result(b.heap, <<>>, <<>>, NoneInt, 0, Raised(b.raised))
             ELSE Result(b.heap, b.cmd,
                      <<"echo -e ">> \o command_line \o <<" | ">> \o b.cmd,
                      NoneInt, 1, RemoteOutcome(a.exit_status, RunJobId(a.stdout)))

\* Lines 459-460.
RunArrayLocalCommand(p, command_line) ==
    LET redirection ==
            IF p.quiet THEN <<" > ">> \o p.log_file \o <<"-$0 2>&1'">>
            ELSE <<" 2>&1 | tee ">> \o p.log_file \o <<"-$0'">>
    IN  <<"head -n ", Str(p.num_tasks), " ", p.array_file, " | nl | xargs -P ",
          Str(p.max_processes), " -n 9 -L 1 bash -c + 'set -o pipefail; ">>
        \o command_line \o redirection

\* Lines 481-490.
ComputeNodeCommand(command_line, array_file, array_subshell) ==
    LET subtask_env_var_name ==
            CASE hpc_type = "grid" -> "SGE_TASK_ID"
              [] hpc_type = "slurm" -> "SLURM_ARRAY_TASK_ID"
              [] OTHER -> "PBS_ARRAYID"
        compute_node_command ==
            IF array_subshell
            THEN <<"qarrayrun --shell ", subtask_env_var_name, " ", array_file, " ", "\"">>
                 \o command_line \o <<"\"">>
            ELSE <<"qarrayrun ", subtask_env_var_name, " ", array_file, " ">>
                 \o command_line
        quoted == <<"'">> \o compute_node_command \o <<"'">>
    IN  IF hpc_type = "slurm" THEN <<"'#!/bin/sh\\n'">> \o quoted ELSE quoted

\* Lines 432-507.
RunArrayResult(a, h) ==
    IF MissingArrayInput(a.num_tasks, a.file)
    THEN Result(h, <<>>, <<>>, a.num_tasks, 0, Raised("JobRunnerException"))
    ELSE
    LET n == DeriveNumTasks(a.num_tasks, a.file)
        log_file == ArrayLogFile(a.log_file)
    IN  IF hpc_type = "local"
        THEN LET max_processes ==
                     IF a.max_processes = NoneInt THEN CpuCount ELSE a.max_processes
                 p == [a EXCEPT !.log_file = log_file, !.num_tasks = n,
                                !.max_processes = max_processes]
             IN  Result(h, <<>>,
                     RunArrayLocalCommand(p, ReplacePlaceholders(a.command_line)),
                     n, 1, LocalOutcome(a.exit_status))
        ELSE LET p == [a EXCEPT !.log_file = log_file, !.num_tasks = n]
                 b == MakeQsubCommand(p, Bind(a.wait_for, "run_array.wait_for"),
                          Bind(a.wait_for_array, "run_array.wait_for_array"), h)
             IN  IF b.raised /= ""
                 THEN Result(b.heap, <<>>, <<>>, n, 0, Raised(b.raised))
                 ELSE Result(b.heap, b.cmd,
                          <<"echo -e ">>
                              \o ComputeNodeCommand(a.command_line, a.array_file,
                                     a.array_subshell)
                              \o <<" | ">> \o b.cmd,
                          n, 1, RemoteOutcome(a.exit_status, RunArrayJobId(a.stdout)))

----------------------------------------------------------------------------
\* Actions: one call of a method on the constructed runner, taken as one
\* step.  The child process of the call is a black box here that answers with
\* the exit status a.exit_status; the actions of the local batch further down
\* follow the child processes of a local call one step at a time instead.

\* The call with result r is taken and leaves r behind.  No list object is
\* let grow beyond MaxDepListLen.
Leave(a, r) ==
    /\ \A o \in Objects : Len(r.heap[o]) <= MaxDepListLen
    /\ heap' = r.heap
    /\ call' = a
    /\ qsub_command_line' = r.qsub_command_line
    /\ command' = r.command
    /\ num_tasks' = r.num_tasks
    /\ spawned' = r.spawned
    /\ handler_calls' = r.out.handler_calls
    /\ outcome' = r.out
    /\ UNCHANGED <<config, batch>>

make_qsub_command(a) ==
    /\ constructed = "ok"
    /\ a.op = "_make_qsub_command"
    /\ Leave(a, MakeQsubCommandResult(a, heap))

run(a) ==
    /\ constructed = "ok"
    /\ a.op = "run"
    /\ Leave(a, RunResult(a, heap))

run_array(a) ==
    /\ constructed = "ok"
    /\ a.op = "run_array"
    /\ Leave(a, RunArrayResult(a, heap))

----------------------------------------------------------------------------
\* Specifications.  Each draws the arguments of the calls from its own sets,
\* around the defaults of BaseArgs.

\* All sequences over S of length at most n.
SeqsUpTo(S, n) == UNION {[1..k -> S] : k \in 0..n}

\* Spec: any sequence of run and run_array calls on one runner, the
\* dependency arguments left out, given as a string or given as a list the
\* caller keeps.
WaitForArgs == {DefaultArg, StrArg("777"), ObjArg("caller.jobs")}

WaitForArrayArgs == {DefaultArg, StrArg("888"), ObjArg("caller.arrays")}

RunArgs ==
    {[BaseArgs("run") EXCEPT !.wait_for = wf, !.wait_for_array = wfa] :
        wf \in WaitForArgs, wfa \in WaitForArrayArgs}

RunArrayArgs ==
    {[BaseArgs("run_array") EXCEPT !.wait_for = wf, !.wait_for_array = wfa,
                                   !.slot_dependency = slot] :
        wf \in WaitForArgs, wfa \in WaitForArrayArgs, slot \in BOOLEAN}

Next ==
    \/ \E a \in RunArgs : run(a)
    \/ \E a \in RunArrayArgs : run_array(a)

Spec == Init /\ [][Next]_vars

\* SpecSubmit: one call of run or run_array, over the thread requests, the
\* exit status of the child process and the text the submission tool prints.
IdChars == {"7", ".", "\n"}

ExitStatuses == {0, 100}

ThreadRequests == {<<1, "">>, <<1, "mpi">>, <<8, "">>, <<8, "mpi">>}

SubmitArgs(op) ==
    {[BaseArgs(op) EXCEPT !.threads = t[1], !.parallel_environment = t[2],
                          !.exit_status = e, !.stdout = out] :
        t \in ThreadRequests, e \in ExitStatuses, out \in SeqsUpTo(IdChars, MaxIdLen)}

\* No method of the runner was called yet: the specifications below look at
\* one call, the first on its runner.
FirstCall == call.op = "none"

NextSubmit ==
    \/ \E a \in SubmitArgs("run") : FirstCall /\ run(a)
    \/ \E a \in SubmitArgs("run_array") : FirstCall /\ run_array(a)

InitSubmit == InitWith(BOOLEAN, {""}, BOOLEAN, {FALSE})

SpecSubmit == InitSubmit /\ [][NextSubmit]_vars

\* SpecArray: one call of run_array, over the task counts and the array files.
FileChars == {"a", "\n"}

ArrayFiles ==
    {[exists |-> FALSE, content |-> <<>>]}
    \cup {[exists |-> TRUE, content |-> c] : c \in SeqsUpTo(FileChars, MaxFileLen)}

ArrayArgs ==
    {[BaseArgs("run_array") EXCEPT !.num_tasks = n, !.max_processes = m, !.file = f] :
        n \in {NoneInt} \cup 0..MaxTasks, m \in {NoneInt, MaxTasks}, f \in ArrayFiles}

NextArray == \E a \in ArrayArgs : FirstCall /\ run_array(a)

SpecArray == Init /\ [][NextArray]_vars

\* SpecBuild: one call of _make_qsub_command, over every combination of its
\* parameters; the lists are written in the call.
BuildWaitForArgs == {DefaultArg, StrArg("777"), LiteralArg(<<"666", "777">>)}

BuildWaitForArrayArgs == {DefaultArg, StrArg("888"), LiteralArg(<<"888", "999">>)}

BuildArgs ==
    {[BaseArgs("_make_qsub_command") EXCEPT
          !.wait_for = wf, !.wait_for_array = wfa, !.slot_dependency = slot,
          !.threads = t[1], !.parallel_environment = t[2], !.num_tasks = n,
          !.max_processes = m, !.exclusive = x, !.wall_clock_limit = w] :
        wf \in BuildWaitForArgs, wfa \in BuildWaitForArrayArgs, slot \in BOOLEAN,
        t \in ThreadRequests, n \in {NoneInt, MaxTasks}, m \in {NoneInt, MaxTasks},
        x \in BOOLEAN, w \in {"", "00:00:40"}}

NextBuild == \E a \in BuildArgs : FirstCall /\ make_qsub_command(a)

InitBuild == InitWith({TRUE}, ExtraParamValues, {FALSE}, {FALSE})

SpecBuild == InitBuild /\ [][NextBuild]_vars

----------------------------------------------------------------------------
\* Reading a call and what it left behind.

Remote == hpc_type \in {"grid", "slurm", "torque"}

Called(ops) == constructed = "ok" /\ call.op \in ops

\* The submission command was built by the last call.
Built == outcome.raised /= "ValueError" /\ outcome.raised /= "JobRunnerException"
         /\ Len(qsub_command_line) > 0

Has(cmd, piece) == \E i \in 1..Len(cmd) : cmd[i] = piece

Contains(cmd, pieces) ==
    \E i \in 0..(Len(cmd) - Len(pieces)) : SubSeq(cmd, i + 1, i + Len(pieces)) = pieces

\* The first position of a piece in a command, 0 when it is not there.
Position(cmd, piece) ==
    IF Has(cmd, piece) THEN CHOOSE i \in 1..Len(cmd) : cmd[i] = piece /\ ~Has(SubSeq(cmd, 1, i - 1), piece)
    ELSE 0

\* The pieces that start a dependency clause, on any backend.
DependencyFlags ==
    {" -hold_jid ", " -hold_jid_ad ", " --dependency=", " -W depend=",
     "afterok:", "aftercorr:", "afterokarray:"}

NoDependencyGiven == call.wait_for = DefaultArg /\ call.wait_for_array = DefaultArg

----------------------------------------------------------------------------
\* C1: a call of run or run_array leaves no dependency state behind: the
\* default dependency lists and the lists of the caller are after the call
\* what they were before it (so always what they were at first), and the
\* submission command of a call made with no dependencies carries no
\* dependency flag, whatever calls came before.
C1_NoDependencyStateLeft ==
    (Called({"run", "run_array"}) /\ Remote) =>
        /\ heap = InitialHeap
        /\ (Built /\ NoDependencyGiven) =>
               \A i \in 1..Len(qsub_command_line) :
                   qsub_command_line[i] \notin DependencyFlags

----------------------------------------------------------------------------
\* C2: on grid and torque with strip_job_array_suffix on, the job id that run
\* and run_array return is the text the tool printed, trimmed and cut before
\* its first dot, whenever that text has the form <id>.<suffix>.
HasSuffixForm(id) == Find(id, ".") > 0

C2_SuffixStrippedByBoth ==
    (Called({"run", "run_array"}) /\ hpc_type \in {"grid", "torque"}
        /\ strip_job_array_suffix /\ spawned = 1 /\ outcome.raised = ""
        /\ HasSuffixForm(Strip(call.stdout))) =>
        outcome.job_id = SubSeq(Strip(call.stdout), 1, Find(Strip(call.stdout), "."))

----------------------------------------------------------------------------
\* C3: in local mode a non-zero exit of the command of run, or of the batch
\* of run_array, is raised to the caller when no handler was registered; with
\* a handler it goes to the handler, once, and the call returns "0".  A zero
\* exit never reaches the handler.
C3_LocalFailureRouting ==
    (Called({"run", "run_array"}) /\ hpc_type = "local" /\ spawned = 1) =>
        /\ (call.exit_status /= 0 /\ ~exception_handler) =>
               /\ outcome.raised = "CalledProcessError"
               /\ outcome.job_id = <<>>
               /\ handler_calls = 0
        /\ (call.exit_status /= 0 /\ exception_handler) =>
               /\ outcome.raised = ""
               /\ outcome.job_id = <<"0">>
               /\ handler_calls = 1
        /\ call.exit_status = 0 =>
               /\ outcome.raised = ""
               /\ outcome.job_id = <<"0">>
               /\ handler_calls = 0

C3_Witness_HandlerCalledOnce ==
    /\ Called({"run_array"}) /\ hpc_type = "local" /\ exception_handler
    /\ spawned = 1 /\ call.exit_status /= 0
    /\ handler_calls = 1 /\ outcome.job_id = <<"0">>

----------------------------------------------------------------------------
\* C4: in remote mode a non-zero exit of the submission tool is raised to the
\* caller, with or without a registered handler: the handler is never called
\* in remote mode, no job id is returned, and the tool runs once per call.
C4_RemoteFailurePropagates ==
    (Called({"run", "run_array"}) /\ Remote) =>
        /\ handler_calls = 0
        /\ spawned <= 1
        /\ (spawned = 1 /\ call.exit_status /= 0) =>
               /\ outcome.raised = "CalledProcessError"
               /\ outcome.returncode = call.exit_status
               /\ outcome.job_id = <<>>

C4_Witness_FailureWithHandler ==
    /\ Called({"run"}) /\ Remote /\ exception_handler
    /\ spawned = 1 /\ call.exit_status /= 0
    /\ outcome.raised = "CalledProcessError"

----------------------------------------------------------------------------
\* C5: on every backend, run_array without a task count raises
\* JobRunnerException when the array file is missing and when it is empty,
\* and has then spawned no child process; with a positive task count the
\* array file need not exist.
C5_MissingArrayInput ==
    Called({"run_array"}) =>
        /\ (call.num_tasks = NoneInt /\ (~call.file.exists \/ Len(call.file.content) = 0)) =>
               (outcome.raised = "JobRunnerException" /\ spawned = 0)
        /\ call.num_tasks > 0 =>
               (outcome.raised /= "JobRunnerException" /\ spawned = 1)

C5_Witness_EmptyFile ==
    /\ Called({"run_array"}) /\ call.num_tasks = NoneInt
    /\ call.file.exists /\ Len(call.file.content) = 0
    /\ outcome.raised = "JobRunnerException" /\ spawned = 0

----------------------------------------------------------------------------
\* The lines of a text: the pieces between its newlines, a last piece
\* without a newline included.
RECURSIVE SplitLines(_, _)
SplitLines(content, line) ==
    IF Len(content) = 0 THEN (IF Len(line) = 0 THEN <<>> ELSE <<line>>)
    ELSE IF Head(content) = "\n" THEN <<line>> \o SplitLines(Tail(content), <<>>)
    ELSE SplitLines(Tail(content), Append(line, Head(content)))

LinesOf(content) == SplitLines(content, <<>>)

NonEmptyLineCount(content) ==
    Cardinality({i \in 1..Len(LinesOf(content)) : Len(LinesOf(content)[i]) > 0})

\* The piece that follows the first occurrence of a piece.
PieceAfter(cmd, piece) == cmd[Position(cmd, piece) + 1]

\* The task count the command of the last run_array carries: in the array
\* flag of the submission command, or in the head of the local batch.
TaskCountFlag ==
    CASE hpc_type = "local" -> "head -n "
      [] hpc_type = "slurm" -> " --array=1-"
      [] OTHER -> " -t 1-"

DerivedCount ==
    Called({"run_array"}) /\ ~Truthy(call.num_tasks) /\ outcome.raised = ""

\* C6 as stated: without a task count, run_array derives as many subtasks as
\* the array file has non-empty lines.
C6_CountsNonEmptyLines ==
    DerivedCount =>
        /\ num_tasks = NonEmptyLineCount(call.file.content)
        /\ PieceAfter(command, TaskCountFlag) = Str(NonEmptyLineCount(call.file.content))

\* C6 amended: without a task count, run_array derives as many subtasks as the
\* array file has lines, the empty lines counted like the others.
C6_CountsAllLines ==
    DerivedCount =>
        /\ num_tasks = Len(LinesOf(call.file.content))
        /\ PieceAfter(command, TaskCountFlag) = Str(Len(LinesOf(call.file.content)))

C6_Witness_EmptyLineCounted ==
    /\ DerivedCount
    /\ NonEmptyLineCount(call.file.content) = 1
    /\ num_tasks = 2

----------------------------------------------------------------------------
\* C7: more than one thread on grid without a parallel environment raises
\* ValueError in run and in run_array before the submission tool is started;
\* on slurm and torque the same request succeeds and the command carries the
\* thread request; with one thread no backend asks for a parallel environment
\* and no thread request is emitted.
ThreadFlags == {" -pe ", " --cpus-per-task=", " -l nodes=1:ppn="}

C7_ParallelEnvironment ==
    Called({"run", "run_array"}) =>
        /\ (hpc_type = "grid" /\ call.threads > 1 /\ call.parallel_environment = "") =>
               (outcome.raised = "ValueError" /\ spawned = 0)
        /\ (hpc_type = "slurm" /\ call.threads > 1) =>
               /\ outcome.raised /= "ValueError"
               /\ Contains(qsub_command_line, <<" --cpus-per-task=", Str(call.threads)>>)
        /\ (hpc_type = "torque" /\ call.threads > 1) =>
               /\ outcome.raised /= "ValueError"
               /\ Contains(qsub_command_line, <<" -l nodes=1:ppn=", Str(call.threads)>>)
        /\ call.threads = 1 =>
               /\ outcome.raised /= "ValueError"
               /\ \A i \in 1..Len(qsub_command_line) : qsub_command_line[i] \notin ThreadFlags

C7_Witness_GridWithoutEnvironment ==
    /\ Called({"run_array"}) /\ hpc_type = "grid"
    /\ call.threads > 1 /\ call.parallel_environment = ""
    /\ outcome.raised = "ValueError" /\ spawned = 0

----------------------------------------------------------------------------
\* Reading the dependency clauses of a built command.

DepIds == {"666", "777", "888", "999"}

\* The job and array dependencies given to a call that wrote them in the call
\* (a string or a list) or left them out.
GivenJobs == call.wait_for.val

GivenArrays == call.wait_for_array.val

\* The longest run of identifiers and separators sep at the head of pieces.
RECURSIVE IdRun(_, _)
IdRun(pieces, sep) ==
    IF Len(pieces) > 0 /\ (Head(pieces) \in DepIds \/ Head(pieces) = sep)
    THEN <<Head(pieces)>> \o IdRun(Tail(pieces), sep)
    ELSE <<>>

\* The identifier list that follows the first occurrence of flag in cmd.
ClauseOf(cmd, flag, sep) == IdRun(SubSeq(cmd, Position(cmd, flag) + 1, Len(cmd)), sep)

\* cmd carries list under flag, in order, and flag is absent when list is empty.
ClauseIs(cmd, flag, sep, list) ==
    IF Len(list) = 0 THEN ~Has(cmd, flag)
    ELSE Has(cmd, flag) /\ ClauseOf(cmd, flag, sep) = Join(sep, list)

\* flag1 and flag2, when both in cmd, come in this order.
InOrder(cmd, flag1, flag2) ==
    (Has(cmd, flag1) /\ Has(cmd, flag2)) => Position(cmd, flag1) < Position(cmd, flag2)

BuiltDirectly == Called({"_make_qsub_command"}) /\ Remote /\ Built

\* The command the same call builds with the slot dependency flag flipped.
CommandWithFlagFlipped ==
    MakeQsubCommandResult([call EXCEPT !.slot_dependency = ~@], InitialHeap).qsub_command_line

----------------------------------------------------------------------------
----------------------------------------------------------------------------
\* The clause flags of each backend: Main holds the job dependencies, Slot the
\* array dependencies kept apart.
MainFlag ==
    CASE hpc_type = "grid" -> " -hold_jid " [] OTHER -> "afterok:"

SlotFlag ==
    CASE hpc_type = "grid" -> " -hold_jid_ad "
      [] hpc_type = "slurm" -> "aftercorr:"
      [] OTHER -> "afterokarray:"

Separator == CASE hpc_type = "grid" -> "," [] OTHER -> ":"

\* The command carries the job dependencies followed by the array
\* dependencies as one list.
CarriesOneList ==
    /\ ClauseIs(qsub_command_line, MainFlag, Separator, GivenJobs \o GivenArrays)
    /\ ~Has(qsub_command_line, SlotFlag)

\* The command carries the job dependencies and the array dependencies as two
\* lists.
CarriesTwoLists ==
    /\ ClauseIs(qsub_command_line, MainFlag, Separator, GivenJobs)
    /\ ClauseIs(qsub_command_line, SlotFlag, Separator, GivenArrays)

\* C9 as stated: without slot dependency on any remote backend, and always on
\* torque, the job dependencies and the array dependencies are merged into one
\* ordered list, which the command carries instead of two lists.
C9_MergedAlsoOnTorque ==
    (BuiltDirectly /\ (~call.slot_dependency \/ hpc_type = "torque")) => CarriesOneList

\* C9 amended: without slot dependency on grid and slurm the job dependencies
\* and the array dependencies are merged into one ordered list (the job
\* dependencies first), which the command carries instead of two lists; on
\* torque the two lists are never merged, whatever the flag: the command
\* carries the job dependencies under afterok and the array dependencies, as a
\* list of their own, under afterokarray.
C9_MergedOnGridAndSlurm ==
    BuiltDirectly =>
        /\ (hpc_type \in {"grid", "slurm"} /\ ~call.slot_dependency) => CarriesOneList
        /\ hpc_type = "torque" => CarriesTwoLists

C9_Witness_TorqueTwoLists ==
    /\ BuiltDirectly /\ hpc_type = "torque" /\ ~call.slot_dependency
    /\ Len(GivenJobs) = 2 /\ Len(GivenArrays) = 2
    /\ Contains(qsub_command_line,
           <<"afterok:", "666", ":", "777", ",", "afterokarray:", "888", ":", "999">>)

----------------------------------------------------------------------------
\* The documented layout of the submission command: the segments of each
\* backend in their order, and the text of each segment for the last call.
SegmentOrder ==
    CASE hpc_type = "grid" ->
             <<"program", "array", "fixed", "hold", "slot", "cap", "threads",
               "wallclock", "extra">>
      [] hpc_type = "slurm" ->
             <<"program", "exclusive", "array", "fixed", "dependency", "threads",
               "wallclock", "extra">>
      [] OTHER ->
             <<"program", "array", "fixed", "dependency", "threads", "wallclock",
               "extra">>

\* The options a segment is made of when its parameter is set.
Optional(set, pieces) == IF set THEN pieces ELSE <<>>

\* [%K], the concurrency cap folded into the array flag.
FoldedCap == Optional(Truthy(call.max_processes), <<"%", Str(call.max_processes)>>)

\* afterok:a:b[,<slot>:x:y], the clauses of one dependency value.
DependencyValue(jobs, slot_flag, arrays) ==
    Optional(Len(jobs) > 0, <<"afterok:">> \o Join(":", jobs))
    \o Optional(Len(jobs) > 0 /\ Len(arrays) > 0, <<",">>)
    \o Optional(Len(arrays) > 0, <<slot_flag>> \o Join(":", arrays))

\* The dependency value of slurm and torque for the last call.
DocumentedDependency ==
    IF hpc_type = "torque" THEN DependencyValue(GivenJobs, "afterokarray:", GivenArrays)
    ELSE IF call.slot_dependency THEN DependencyValue(GivenJobs, "aftercorr:", GivenArrays)
    ELSE DependencyValue(GivenJobs \o GivenArrays, "aftercorr:", <<>>)

Segment(kind) ==
    CASE kind = "program" ->
             (CASE hpc_type = "grid" -> <<"qsub -terse">>
                [] hpc_type = "slurm" -> <<"sbatch --parsable">>
                [] OTHER -> <<"qsub">>)
      [] kind = "exclusive" -> Optional(call.exclusive, <<" --exclusive">>)
      [] kind = "array" ->
             Optional(Truthy(call.num_tasks),
                 CASE hpc_type = "grid" -> <<" -t 1-", Str(call.num_tasks)>>
                   [] hpc_type = "slurm" -> <<" --array=1-", Str(call.num_tasks)>> \o FoldedCap
                   [] OTHER -> <<" -t 1-", Str(call.num_tasks)>> \o FoldedCap)
      [] kind = "fixed" ->
             (CASE hpc_type = "grid" -> <<" -V -j y -cwd -N ", call.job_name, " -o ">>
                [] hpc_type = "slurm" -> <<" --export=ALL --job-name=", call.job_name, " -o ">>
                [] OTHER -> <<" -V -j oe -d ", Cwd, " -N ", call.job_name, " -o ">>)
             \o call.log_file
      [] kind = "hold" ->
             LET jobs == IF call.slot_dependency THEN GivenJobs
                         ELSE GivenJobs \o GivenArrays
             IN  Optional(Len(jobs) > 0, <<" -hold_jid ">> \o Join(",", jobs))
      [] kind = "slot" ->
             Optional(call.slot_dependency /\ Len(GivenArrays) > 0,
                 <<" -hold_jid_ad ">> \o Join(",", GivenArrays))
      [] kind = "dependency" ->
             Optional(Len(DocumentedDependency) > 0,
                 <<IF hpc_type = "slurm" THEN " --dependency=" ELSE " -W depend=">>
                 \o DocumentedDependency)
      [] kind = "cap" -> Optional(Truthy(call.max_processes), <<" -tc ", Str(call.max_processes)>>)
      [] kind = "threads" ->
             Optional(call.threads > 1,
                 CASE hpc_type = "grid" ->
                          <<" -pe ", call.parallel_environment, " ", Str(call.threads)>>
                   [] hpc_type = "slurm" -> <<" --cpus-per-task=", Str(call.threads)>>
                   [] OTHER -> <<" -l nodes=1:ppn=", Str(call.threads)>>)
      [] kind = "wallclock" ->
             Optional(call.wall_clock_limit /= "",
                 CASE hpc_type = "grid" -> <<" -l h_rt=", call.wall_clock_limit>>
                   [] hpc_type = "slurm" -> <<" --time ", call.wall_clock_limit>>
                   [] OTHER -> <<" -l walltime=", call.wall_clock_limit>>)
      [] OTHER -> Optional(qsub_extra_params /= "", <<" ", qsub_extra_params>>)

RECURSIVE Segments(_)
Segments(kinds) ==
    IF Len(kinds) = 0 THEN <<>> ELSE Segment(Head(kinds)) \o Segments(Tail(kinds))

\* C10: for every combination of the parameters, the built command is the
\* concatenation of the segments of its backend in their documented order,
\* each optional segment there exactly when its parameter is set: the extra
\* parameters last, --exclusive on slurm only, no concurrency cap when
\* max_processes is not set.
C10_DocumentedLayout ==
    BuiltDirectly =>
        /\ qsub_command_line = Segments(SegmentOrder)
        /\ (hpc_type /= "slurm") => ~Has(qsub_command_line, " --exclusive")
        /\ (qsub_extra_params /= "") =>
               qsub_command_line[Len(qsub_command_line)] = qsub_extra_params
        /\ ~Truthy(call.max_processes) =>
               (~Has(qsub_command_line, " -tc ") /\ ~Has(qsub_command_line, "%"))

\* The array job of the doctest of lines 127-128, with MaxTasks subtasks.
C10_Witness_GridArrayJob ==
    /\ BuiltDirectly /\ hpc_type = "grid"
    /\ qsub_command_line =
           <<"qsub -terse", " -t 1-", Str(MaxTasks), " -V -j y -cwd -N ", "JobName",
             " -o ", "log", " -hold_jid ", "666", ",", "777",
             " -hold_jid_ad ", "888", ",", "999", " -tc ", Str(MaxTasks),
             " -pe ", "mpi", " ", "8", " -l h_rt=", "00:00:40", " ", "-q service.q">>

----------------------------------------------------------------------------
\* The pieces that open an option after the log path in a submission command.
OptionStarts ==
    DependencyFlags \cup {" -pe ", " -tc ", " --cpus-per-task=", " -l nodes=1:ppn=",
                          " -l h_rt=", " --time ", " -l walltime=", " "}

\* The command that names the log file, and the piece the log path follows.
LogCommand == IF Remote THEN qsub_command_line ELSE command

LogFlag ==
    CASE Remote -> " -o "
      [] call.quiet -> " > "
      [] OTHER -> " 2>&1 | tee "

\* The pieces of a command up to the first piece that opens an option.
RECURSIVE UpToOption(_)
UpToOption(cmd) ==
    IF Len(cmd) = 0 \/ Head(cmd) \in OptionStarts THEN <<>>
    ELSE <<Head(cmd)>> \o UpToOption(Tail(cmd))

\* The log path the last call passed on: what follows the flag, up to the
\* next option.
PassedLogPath ==
    UpToOption(SubSeq(LogCommand, Position(LogCommand, LogFlag) + 1, Len(LogCommand)))

\* The suffix the local batch gives the log path: $0 is the number nl gave
\* the line of the subtask.
LocalSuffixes == {"-$0'", "-$0 2>&1'"}

NamesLogFile == Called({"run", "run_array"}) /\ spawned = 1

----------------------------------------------------------------------------
\* The local batch: the child processes of a local run or run_array, one
\* step at a time.

\* The words of a line: the pieces between its blanks.
RECURSIVE SplitWords(_, _)
SplitWords(line, word) ==
    IF Len(line) = 0 THEN (IF Len(word) = 0 THEN <<>> ELSE <<word>>)
    ELSE IF Head(line) = " "
    THEN (IF Len(word) = 0 THEN <<>> ELSE <<word>>) \o SplitWords(Tail(line), <<>>)
    ELSE SplitWords(Tail(line), Append(word, Head(line)))

Words(line) == SplitWords(line, <<>>)

\* head -n n file: the first n lines, none when the file is not there.
HeadLines(n, file) ==
    IF file.exists
    THEN SubSeq(LinesOf(file.content), 1,
             IF n < Len(LinesOf(file.content)) THEN n ELSE Len(LinesOf(file.content)))
    ELSE <<>>

\* nl | xargs -L 1 bash -c + '...': one command for every line that is not
\* empty, in the order of the lines; nl numbers these lines from 1 and passes
\* the empty ones without a number, xargs skips the empty ones.  $0 is the
\* number and $1.. are the words of the line.  The lines of the array files
\* of this model neither end with a blank nor consist of blanks.
RECURSIVE NumberedTasks(_, _, _)
NumberedTasks(lines, at, number) ==
    IF at > Len(lines) THEN <<>>
    ELSE IF Len(lines[at]) = 0 THEN NumberedTasks(lines, at + 1, number)
    ELSE <<[number |-> Str(number), line |-> at, fields |-> Words(lines[at])]>>
         \o NumberedTasks(lines, at + 1, number + 1)

\* xargs without -r runs the command once, with no arguments, when it reads
\* no line that is not empty: $0 is then the name of the shell.
XargsTasks(lines) ==
    IF Len(NumberedTasks(lines, 1, 1)) = 0
    THEN <<[number |-> "bash", line |-> 0, fields |-> <<>>]>>
    ELSE NumberedTasks(lines, 1, 1)

\* The command of the tests, (echo {1} to stdout; echo {1} to stderr 1>&2):
\* the lines it writes, in the order it writes them, with $1 the first word
\* it is given.
TestCommand == <<"(echo ", "{1}", " to stdout; echo ", "{1}", " to stderr 1>&2)">>

CommandOutput(fields) ==
    LET word == IF Len(fields) > 0 THEN fields[1] ELSE <<>>
    IN  <<[fd |-> 1, text |-> <<word, " to stdout">>],
          [fd |-> 2, text |-> <<word, " to stderr">>]>>

\* A variant of Destinations without the 2>&1.
Destinations_StderrApart(fd, quiet) ==
    IF fd = 2 THEN {"stderr"}
    ELSE IF quiet THEN {"log"} ELSE {"log", "stdout"}

\* Lines 325 and 459: where a line the command writes to fd goes.  2>&1 joins
\* stderr to stdout; > log sends both to the log, | tee log to the log and to
\* the standard output of the caller.
Destinations(fd, quiet) == IF quiet THEN {"log"} ELSE {"log", "stdout"}

\* set -o pipefail: the exit status of a pipeline is that of its last stage
\* that failed, 0 when none did.
RECURSIVE PipelineStatus(_)
PipelineStatus(statuses) ==
    IF Len(statuses) = 0 THEN 0
    ELSE IF statuses[Len(statuses)] /= 0 THEN statuses[Len(statuses)]
    ELSE PipelineStatus(SubSeq(statuses, 1, Len(statuses) - 1))

\* A variant of ShellStatus without pipefail: the status of tee.
ShellStatus_NoPipefail(code, quiet) == IF quiet THEN code ELSE 0

\* Lines 325-326 and 459-460: the exit status of the shell that runs the
\* command, the command having ended with status code and tee with 0.
ShellStatus(code, quiet) == IF quiet THEN code ELSE PipelineStatus(<<code, 0>>)

\* The exit status of xargs: 124 when a command ended with 255, 123 when one
\* ended with another status than 0.
XargsStatus(b) ==
    IF b.aborted THEN 124
    ELSE IF \E i \in 1..b.started : b.exits[i] /= 0 THEN 123
    ELSE 0

\* A variant of MayStart without the bound of -P.
MayStart_Unbounded(b) == TRUE

\* xargs -P limit: at most limit commands at a time, any number when limit is 0.
MayStart(b) == b.limit = 0 \/ Cardinality(b.running) < b.limit

\* Lines 454-455.
MaxProcesses(a) == IF a.max_processes = NoneInt THEN CpuCount ELSE a.max_processes

\* What one writer puts on a stream or into a log.
Written(src, task, fd, text) == [src |-> src, task |-> task, fd |-> fd, text |-> text]

\* Lines 327-328 and 461-462: print(command_line).
Printed(command_line) ==
    IF verbose THEN <<Written("python", "", 1, command_line)>> ELSE <<>>

\* The batch of a call as check_call starts it.
NewBatch(is_xargs, limit, tasks, command_line, complaint) ==
    [NoBatch EXCEPT !.phase = "running", !.xargs = is_xargs, !.limit = limit,
                    !.tasks = tasks,
                    !.written = [i \in 1..Len(tasks) |-> 0],
                    !.codes = [i \in 1..Len(tasks) |-> NoneInt],
                    !.exits = [i \in 1..Len(tasks) |-> NoneInt],
                    !.logs = [i \in 1..Len(tasks) |-> <<>>],
                    !.stdout = Printed(command_line),
                    !.stderr = complaint]

\* The call with arguments a and result r is entered with batch b; it has
\* no outcome until check_call returns.
Enter(a, r, b) ==
    /\ heap' = r.heap
    /\ call' = a
    /\ qsub_command_line' = r.qsub_command_line
    /\ command' = r.command
    /\ num_tasks' = r.num_tasks
    /\ spawned' = r.spawned
    /\ handler_calls' = 0
    /\ outcome' = NoOutcome
    /\ batch' = b
    /\ UNCHANGED config

Step(b) ==
    /\ batch' = b
    /\ UNCHANGED <<config, heap, call, qsub_command_line, command, num_tasks,
                   spawned, handler_calls, outcome>>

\* Lines 324-335: local run up to check_call, the one command it runs not
\* yet started.
run_local_starts(a) ==
    /\ constructed = "ok"
    /\ hpc_type = "local"
    /\ a.op = "run"
    /\ batch.phase /= "running"
    /\ LET r == RunResult(a, heap)
       IN  Enter(a, r,
               NewBatch(FALSE, 1, <<[number |-> "", line |-> 0, fields |-> <<"text">>]>>,
                   r.command, <<>>))

\* Lines 432-469: local run_array up to check_call.  head complains on the
\* standard error of the caller when the array file is not there.
run_array_local_starts(a) ==
    /\ constructed = "ok"
    /\ hpc_type = "local"
    /\ a.op = "run_array"
    /\ batch.phase /= "running"
    /\ LET r == RunArrayResult(a, heap)
           complaint ==
               IF a.file.exists THEN <<>>
               ELSE <<Written("head", "", 2, <<"head: cannot open ", a.array_file>>)>>
       IN  IF r.out.raised /= ""
           THEN Leave(a, r)
           ELSE Enter(a, r,
                    NewBatch(TRUE, MaxProcesses(a),
                        XargsTasks(HeadLines(r.num_tasks, a.file)), r.command, complaint))

\* The next command is started; its redirection creates its log file.
subtask_starts ==
    /\ batch.phase = "running"
    /\ ~batch.aborted
    /\ batch.started < Len(batch.tasks)
    /\ MayStart(batch)
    /\ Step([batch EXCEPT !.started = @ + 1, !.running = @ \cup {batch.started + 1}])

\* A running command writes its next line.
subtask_writes(i) ==
    /\ batch.phase = "running"
    /\ i \in batch.running
    /\ batch.written[i] < Len(CommandOutput(batch.tasks[i].fields))
    /\ LET line == CommandOutput(batch.tasks[i].fields)[batch.written[i] + 1]
           to == Destinations(line.fd, call.quiet)
           item == <<Written("command", batch.tasks[i].number, line.fd, line.text)>>
       IN  Step([batch EXCEPT
                  !.written[i] = @ + 1,
                  !.logs[i] = IF "log" \in to THEN @ \o item ELSE @,
                  !.stdout = IF "stdout" \in to THEN @ \o item ELSE @,
                  !.stderr = IF "stderr" \in to THEN @ \o item ELSE @])

\* A running command that has written its lines ends with status code.
\* xargs starts no further command once a shell ended with status 255.
subtask_exits(i, code) ==
    /\ batch.phase = "running"
    /\ i \in batch.running
    /\ batch.written[i] = Len(CommandOutput(batch.tasks[i].fields))
    /\ LET status == ShellStatus(code, call.quiet)
           aborts == batch.xargs /\ status = 255
       IN  Step([batch EXCEPT
                  !.running = @ \ {i},
                  !.codes[i] = code,
                  !.exits[i] = status,
                  !.aborted = @ \/ aborts,
                  !.stderr = IF aborts
                             THEN @ \o <<Written("xargs", batch.tasks[i].number, 2,
                                             <<"xargs: bash: exited with status 255; aborting">>)>>
                             ELSE @])

\* Lines 334-342 and 468-476: check_call returns when the child process has
\* ended, xargs when every command it started has ended and none is left to
\* start.
local_call_returns ==
    /\ batch.phase = "running"
    /\ batch.running = {}
    /\ batch.aborted \/ batch.started = Len(batch.tasks)
    /\ LET status == IF batch.xargs THEN XargsStatus(batch) ELSE batch.exits[1]
       IN  /\ batch' = [batch EXCEPT !.phase = "returned", !.status = status]
           /\ outcome' = LocalOutcome(status)
           /\ handler_calls' = LocalOutcome(status).handler_calls
           /\ UNCHANGED <<config, heap, call, qsub_command_line, command, num_tasks,
                          spawned>>

\* SpecLocal: one local call of run or run_array followed through its batch,
\* over the array files, the task counts, the concurrency caps, quiet and the
\* exit statuses of the commands.
LocalFiles ==
    {[exists |-> FALSE, content |-> <<>>],
     [exists |-> TRUE, content |-> <<>>],
     [exists |-> TRUE, content |-> <<"a", " ", "x", "\n", "b", "\n", "c", "\n">>],
     [exists |-> TRUE, content |-> <<"a", "\n", "\n", "b", "\n">>]}

CommandExits == {0, 3, 255}

MaxProcessesArgs == {NoneInt, 0, 1}

LocalRunArgs ==
    {[BaseArgs("run") EXCEPT !.command_line = TestCommand, !.quiet = q] : q \in BOOLEAN}

LocalArrayArgs ==
    {[BaseArgs("run_array") EXCEPT !.command_line = TestCommand, !.quiet = q,
                                   !.file = f, !.num_tasks = n, !.max_processes = m] :
        q \in BOOLEAN, f \in LocalFiles, n \in {NoneInt, MaxTasks}, m \in MaxProcessesArgs}

NextLocal ==
    \/ \E a \in LocalRunArgs : FirstCall /\ run_local_starts(a)
    \/ \E a \in LocalArrayArgs : FirstCall /\ run_array_local_starts(a)
    \/ subtask_starts
    \/ \E i \in 1..(MaxTasks + 1) : subtask_writes(i)
    \/ \E i \in 1..(MaxTasks + 1), code \in CommandExits : subtask_exits(i, code)
    \/ local_call_returns

InitLocal == InitWith({TRUE}, {""}, BOOLEAN, BOOLEAN)

SpecLocal == InitLocal /\ [][NextLocal]_vars

----------------------------------------------------------------------------
\* Reading the batch of a local run_array.
InArrayBatch == batch.xargs /\ batch.phase \in {"running", "returned"}

RunningNow == Cardinality(batch.running)

----------------------------------------------------------------------------
\* C13: in a local run_array with task count N that ran to its end, whatever
\* the order in which the subtasks ran and ended: the subtasks started are
\* exactly 1..N, subtask i was given the words of line i of the array file,
\* the log file of subtask i holds what subtask i wrote and nothing else, and
\* no subtask is alive once run_array has returned.
C13_SubtaskPerLine ==
    (InArrayBatch /\ batch.phase = "returned" /\ ~batch.aborted) =>
        /\ batch.started = num_tasks
        /\ \A i \in 1..batch.started :
               /\ batch.tasks[i].number = Str(i)
               /\ i <= Len(LinesOf(call.file.content))
               /\ batch.tasks[i].fields = Words(LinesOf(call.file.content)[i])
               /\ Len(batch.logs[i]) > 0
               /\ \A k \in 1..Len(batch.logs[i]) : batch.logs[i][k].task = Str(i)
        /\ batch.running = {}
        /\ \A i \in 1..batch.started : batch.exits[i] /= NoneInt

----------------------------------------------------------------------------
\* Reading the streams of a local call.
InLocalBatch == batch.phase \in {"running", "returned"}

\* What the command of task i has written so far, as the lines of the test
\* command in the order it writes them.
WrittenSoFar(i) ==
    LET word == IF Len(batch.tasks[i].fields) > 0 THEN batch.tasks[i].fields[1] ELSE <<>>
        lines == <<Written("command", batch.tasks[i].number, 1, <<word, " to stdout">>),
                   Written("command", batch.tasks[i].number, 2, <<word, " to stderr">>)>>
    IN  SubSeq(lines, 1, batch.written[i])

\* What the command of task i has put on a stream.
RECURSIVE FromTask(_, _)
FromTask(stream, i) ==
    IF Len(stream) = 0 THEN <<>>
    ELSE IF Head(stream).src = "command" /\ Head(stream).task = batch.tasks[i].number
    THEN <<Head(stream)>> \o FromTask(Tail(stream), i)
    ELSE FromTask(Tail(stream), i)

FromCommands(stream) == {k \in 1..Len(stream) : stream[k].src = "command"}

\* The log of every command holds what the command wrote to stdout and to
\* stderr, in the order it wrote it, quiet or not.
LogsHoldOutput == \A i \in 1..Len(batch.tasks) : batch.logs[i] = WrittenSoFar(i)

\* Not quiet: every line of every command is on the standard output of the
\* caller as well.
OutputAlsoOnStdout ==
    \A i \in 1..Len(batch.tasks) : FromTask(batch.stdout, i) = WrittenSoFar(i)

\* C14 as stated: in a local run and a local run_array the log holds the
\* output of the command, stdout and stderr together in the order written,
\* quiet or not; when not quiet every line is also on the standard output of
\* the caller and nothing is on its standard error; when quiet nothing is on
\* the standard output or the standard error of the caller.
C14_NothingElseOnStreams ==
    InLocalBatch =>
        /\ LogsHoldOutput
        /\ ~call.quiet => (OutputAlsoOnStdout /\ batch.stderr = <<>>)
        /\ call.quiet => (batch.stdout = <<>> /\ batch.stderr = <<>>)

\* C14 amended: the same of the lines the command writes: when not quiet
\* every one of them is also on the standard output of the caller and none is
\* on its standard error; when quiet none is on either.  What is on the
\* streams besides is not the command's: the command line the runner prints
\* when verbose is on, on the standard output, and what head and xargs say
\* themselves, on the standard error.
C14_CommandOutputRouting ==
    InLocalBatch =>
        /\ LogsHoldOutput
        /\ ~call.quiet => (OutputAlsoOnStdout /\ FromCommands(batch.stderr) = {})
        /\ call.quiet => (FromCommands(batch.stdout) = {} /\ FromCommands(batch.stderr) = {})
        /\ \A k \in 1..Len(batch.stdout) : batch.stdout[k].src \in {"command", "python"}
        /\ \A k \in 1..Len(batch.stderr) : batch.stderr[k].src \in {"head", "xargs"}
        /\ ~verbose => FromCommands(batch.stdout) = 1..Len(batch.stdout)

\* A quiet call of a verbose runner has returned: the log holds both lines of
\* the command, the standard output the command line only.
C14_Witness_QuietVerbose ==
    /\ InLocalBatch /\ batch.phase = "returned"
    /\ call.quiet /\ verbose
    /\ Len(batch.logs[1]) = 2
    /\ batch.logs[1][1].fd = 1 /\ batch.logs[1][2].fd = 2
    /\ Len(batch.stdout) = 1 /\ batch.stdout[1].src = "python"

----------------------------------------------------------------------------
\* Reading the end of a local call.
LocalCallEnded == batch.phase = "returned"

FailedCodes == {batch.codes[i] : i \in 1..Len(batch.tasks)} \ {0, NoneInt}

\* The call failed: CalledProcessError reached the caller or the handler.
CallFailed ==
    \/ outcome.raised = "CalledProcessError" /\ outcome.returncode = batch.status
    \/ exception_handler /\ handler_calls = 1

\* The command line check_call ran, which CalledProcessError carries, holds
\* the command of the caller.
CarriesCommandText ==
    /\ Len(command) > 0
    /\ Contains(command, IF batch.xargs THEN ReplacePlaceholders(call.command_line)
                         ELSE call.command_line)

\* C17 as stated: a local run, or run_array, one of whose commands ended
\* with a status s other than 0 fails, quiet or not, whatever tee and the
\* other subtasks did, and the failure carries s and the command text.
C17_CarriesStatusOfCommand ==
    (LocalCallEnded /\ FailedCodes /= {}) =>
        /\ CallFailed
        /\ batch.status \in FailedCodes
        /\ CarriesCommandText

\* C17 amended: such a call fails, quiet or not, and the failure carries the
\* command text; it carries s for run, and for run_array the exit status of
\* xargs: 123, or 124 when a subtask ended with status 255.
C17_NeverMasked ==
    (LocalCallEnded /\ FailedCodes /= {}) =>
        /\ CallFailed
        /\ ~batch.xargs => batch.status \in FailedCodes
        /\ batch.xargs => batch.status = (IF 255 \in FailedCodes THEN 124 ELSE 123)
        /\ CarriesCommandText

\* A run_array that is not quiet: one subtask ended with 3, another with 0,
\* and CalledProcessError reached the caller with the status of xargs.
C17_Witness_OneSubtaskFailed ==
    /\ LocalCallEnded /\ batch.xargs /\ ~call.quiet
    /\ batch.started >= 2
    /\ batch.codes[1] = 3 /\ batch.codes[2] = 0
    /\ outcome.raised = "CalledProcessError"
    /\ batch.status = 123

----------------------------------------------------------------------------
\* The text the submission tool printed, trimmed.
RawId == Strip(call.stdout)

\* The places of the dots of an identifier, counted from 0.
DotsOf(id) == {k \in 0..(Len(id) - 1) : id[k + 1] = "."}

\* An identifier cut before its first dot.
BeforeFirstDot(id) ==
    LET first == CHOOSE k \in DotsOf(id) : \A j \in DotsOf(id) : k <= j
    IN  SubSeq(id, 1, first)

Submitted(ops) == Called(ops) /\ spawned = 1 /\ outcome.raised = ""

\* C15: the identifier run_array returns in remote mode is the trimmed text
\* cut before its first dot when stripping is on and that dot is not in the
\* first place, and the trimmed text itself in every other case: no dot, a
\* dot in the first place, stripping off.  Normalizing the result again
\* changes nothing.  A local call that returns, returns "0".
C15_Normalization ==
    /\ (Submitted({"run_array"}) /\ Remote) =>
           /\ (strip_job_array_suffix /\ DotsOf(RawId) /= {} /\ 0 \notin DotsOf(RawId)) =>
                  outcome.job_id = BeforeFirstDot(RawId)
           /\ (~strip_job_array_suffix \/ DotsOf(RawId) = {} \/ 0 \in DotsOf(RawId)) =>
                  outcome.job_id = RawId
           /\ StripArraySuffix(outcome.job_id) = outcome.job_id
    /\ (Submitted({"run", "run_array"}) /\ ~Remote) => outcome.job_id = <<"0">>

\* Stripping is on and the tool printed a dot first and another later: the
\* identifier comes back whole.
C15_Witness_DotInFirstPlace ==
    /\ Submitted({"run_array"}) /\ Remote /\ strip_job_array_suffix
    /\ DotsOf(RawId) = {0, 2}
    /\ outcome.job_id = RawId

----------------------------------------------------------------------------
\* The names of this model that spell a backend, in whatever case.
BackendNames == {"grid", "Grid", "slurm", "torque", "local"}

Backends == {"grid", "slurm", "torque", "local"}

NothingDone ==
    /\ call.op = "none" /\ spawned = 0 /\ handler_calls = 0
    /\ command = <<>> /\ qsub_command_line = <<>> /\ batch = NoBatch
    /\ heap = InitialHeap

\* C16: a runner is constructed exactly when the name given spells, in
\* whatever case, one of grid, slurm, torque and local, and its backend is
\* then that name in lower case; any other name ends the construction with
\* ValueError, and nothing is ever run or built on such a runner.  The
\* backend of a runner, and whether it was constructed, never change.
C16_ValidBackendOnly ==
    /\ [](/\ constructed \in {"ok", "ValueError"}
          /\ constructed = "ok" <=> hpc_type_given \in BackendNames
          /\ constructed = "ok" => hpc_type \in Backends
          /\ (constructed = "ok" /\ hpc_type_given \in Backends) => hpc_type = hpc_type_given
          /\ (constructed = "ok" /\ hpc_type_given = "Grid") => hpc_type = "grid"
          /\ constructed = "ValueError" => NothingDone)
    /\ [][hpc_type' = hpc_type /\ constructed' = constructed]_vars

\* A runner constructed as Grid has submitted a job as a grid runner.
C16_Witness_GridInCapitals ==
    /\ hpc_type_given = "Grid" /\ constructed = "ok" /\ hpc_type = "grid"
    /\ call.op = "run" /\ Has(qsub_command_line, "qsub -terse")

====
